---- MODULE Spec2Model ----
(***************************************************************************)
(* Model of src/upgradescraper.py: the cached search pipeline              *)
(* brave_search (cache key, 24h cache lookup, fetch, extraction, envelope, *)
(* cache write).  Time is counted in whole hours; texts and URLs are       *)
(* sequences of one-character strings so that startswith, substring,       *)
(* split and whitespace normalisation are computed, not assumed.           *)
(***************************************************************************)
EXTENDS Integers, Sequences, FiniteSets, TLC

\* ------------------------------------------------------------------ bounds
MaxCalls == 2
MaxLimit == 2
MaxPageLen == 3
MaxTime == 24
NumSeeds == 2
NumProcs == 3
MaxLifeCalls == 3

\* ------------------------------------------------------- optional values
None == <<>>
Some(x) == <<x>>
IsNone(o) == o = <<>>
Get(o) == o[1]

\* ------------------------------------------------------------ text helpers
Rep(c, n) == [i \in 1..n |-> c]

IsSpace(c) == c = " "

RECURSIVE LStrip(_)
LStrip(t) == IF t # <<>> /\ IsSpace(Head(t)) THEN LStrip(Tail(t)) ELSE t

RECURSIVE RStrip(_)
RStrip(t) ==
  IF t # <<>> /\ IsSpace(t[Len(t)]) THEN RStrip(SubSeq(t, 1, Len(t) - 1)) ELSE t

\* str.strip()
Strip(t) == RStrip(LStrip(t))

\* str.split(): the maximal runs of non-whitespace characters
RECURSIVE SplitWords(_, _, _)
SplitWords(t, i, cur) ==
  IF i > Len(t)
  THEN (IF cur = <<>> THEN <<>> ELSE <<cur>>)
  ELSE IF IsSpace(t[i])
       THEN (IF cur = <<>> THEN SplitWords(t, i + 1, <<>>)
                           ELSE <<cur>> \o SplitWords(t, i + 1, <<>>))
       ELSE SplitWords(t, i + 1, Append(cur, t[i]))

\* ' '.join(words)
RECURSIVE JoinSpace(_)
JoinSpace(ws) ==
  IF ws = <<>> THEN <<>>
  ELSE IF Len(ws) = 1 THEN ws[1]
  ELSE ws[1] \o <<" ">> \o JoinSpace(Tail(ws))

clean_text(text) ==
  IF text # <<>> THEN JoinSpace(SplitWords(Strip(text), 1, <<>>)) ELSE <<>>

\* str.startswith(prefix)
StartsWith(s, p) == Len(p) <= Len(s) /\ SubSeq(s, 1, Len(p)) = p

\* sub in s
Contains(s, sub) ==
  \E i \in 1..(Len(s) - Len(sub) + 1) : SubSeq(s, i, i + Len(sub) - 1) = sub

\* str.split(sep) for a one-character separator
RECURSIVE SplitOn(_, _, _, _)
SplitOn(s, sep, i, cur) ==
  IF i > Len(s) THEN <<cur>>
  ELSE IF s[i] = sep THEN <<cur>> \o SplitOn(s, sep, i + 1, <<>>)
  ELSE SplitOn(s, sep, i + 1, Append(cur, s[i]))

HttpPrefix == <<"h", "t", "t", "p", ":", "/", "/">>
HttpsPrefix == <<"h", "t", "t", "p", "s", ":", "/", "/">>

\* ------------------------------------------------- time (datetime, hours)
\* datetime.now() with the clock at hour t
Datetime(t) == [type |-> "datetime", t |-> t]

\* datetime.isoformat()
isoformat(dt) == [type |-> "str", t |-> dt.t]

\* datetime.fromisoformat(s): raises ValueError on text that is no ISO date
fromisoformat(s) ==
  IF s.type = "str" THEN [exc |-> FALSE, value |-> Datetime(s.t)]
                    ELSE [exc |-> TRUE, value |-> None]

\* timedelta.total_seconds() of a difference of h hours
total_seconds(h) == h * 3600

\* ----------------------------------------------------------- cache keys
Queries == {"bread", "rust", "lone-surrogate"}

\* quote(query) encodes the text as UTF-8 with errors='strict'
Utf8Encodable(q) == q # "lone-surrogate"

QueryCode(q) == CASE q = "bread" -> 1 [] q = "rust" -> 2 [] OTHER -> 3

Seeds == 0..(NumSeeds - 1)

\* hash(str): a keyed hash; the key is drawn once per interpreter start
PyHash(s, q) == QueryCode(q) * 17 + s * 101 - 60

get_cache_key(s, q) == ToString(PyHash(s, q))

Keys == {get_cache_key(s, q) : s \in Seeds, q \in Queries}

\* ------------------------------------------------------ pages and results
WikiLink == HttpsPrefix \o <<"w", ".", "o", "r", "g", "/", "a">>
BlogLink == HttpPrefix \o <<"b", ".", "i", "o", "/", "x">>
RelLink == <<"/", "w", ".", "o", "r", "g">>

NoFilter == None
WikiDomain == <<"w", ".", "o", "r", "g">>
FilterDomains == {NoFilter, Some(WikiDomain)}

\* One matched result block (div.snippet / news-snippet / video-snippet /
\* card) as the parser presents it: the href of its first <a href>, that
\* tag's text, the hrefs of its later <a href> tags, the text of its title /
\* description / date sub-elements when present, and its full visible text.
BlockW ==
  [a_href |-> Some(WikiLink), a_text |-> <<"w">>,
   title_div |-> Some(<<" ", "B", "r", "e", " ", " ", "a", "d">>),
   snippet_div |-> Some(Rep("s", 30)), item_text |-> Rep("w", 40),
   date_span |-> Some(<<"2", "d">>),
   more_hrefs |-> <<>>]
BlockB ==
  [a_href |-> Some(BlogLink), a_text |-> <<"B", "l", "o", "g", "s">>,
   title_div |-> None,
   snippet_div |-> None, item_text |-> Rep("b", 15) \o <<" ">> \o Rep("c", 15),
   date_span |-> None,
   more_hrefs |-> <<>>]
\* first link is relative
BlockRel ==
  [a_href |-> Some(RelLink), a_text |-> <<"B", "l", "o", "g", "s">>,
   title_div |-> None,
   snippet_div |-> Some(Rep("s", 30)), item_text |-> Rep("r", 40),
   date_span |-> None,
   more_hrefs |-> <<>>]
\* title of five raw characters, four once normalised
BlockShortTitle ==
  [a_href |-> Some(WikiLink), a_text |-> <<"w">>,
   title_div |-> Some(<<"a", "b", " ", " ", "c">>),
   snippet_div |-> Some(Rep("s", 30)), item_text |-> Rep("t", 40),
   date_span |-> None,
   more_hrefs |-> <<>>]
\* snippet of 31 raw characters, 29 once normalised
BlockShortSnippet ==
  [a_href |-> Some(BlogLink), a_text |-> <<"B", "l", "o", "g", "s">>,
   title_div |-> None,
   snippet_div |-> Some(<<" ">> \o Rep("s", 29) \o <<" ">>),
   item_text |-> Rep("u", 40), date_span |-> None,
   more_hrefs |-> <<>>]
\* no <a href> at all
BlockNoLink ==
  [a_href |-> None, a_text |-> <<>>,
   title_div |-> Some(<<"T", "i", "t", "l", "e">>),
   snippet_div |-> Some(Rep("s", 30)), item_text |-> Rep("n", 40),
   date_span |-> None,
   more_hrefs |-> <<>>]
\* first link relative, a later one absolute
BlockRelThenAbs ==
  [a_href |-> Some(RelLink), a_text |-> <<"m", "e", "n", "u">>,
   title_div |-> Some(<<"T", "i", "t", "l", "e">>),
   snippet_div |-> Some(Rep("s", 30)), item_text |-> Rep("m", 40),
   date_span |-> None,
   more_hrefs |-> <<WikiLink>>]

Blocks == {BlockW, BlockB}

\* Every kind of block the loop can meet
AllBlocks ==
  {BlockW, BlockB, BlockRel, BlockShortTitle, BlockShortSnippet, BlockNoLink,
   BlockRelThenAbs}

RECURSIVE SeqsUpTo(_, _)
SeqsUpTo(S, n) ==
  IF n = 0 THEN {<<>>}
  ELSE LET shorter == SeqsUpTo(S, n - 1)
       IN shorter \cup {Append(p, b) : p \in shorter, b \in S}

\* soup.find_all("div", class_=[...]): the matched blocks in document order
Pages == SeqsUpTo(Blocks, MaxPageLen)

\* Pages that also hold blocks the loop must discard
RichPages == SeqsUpTo(AllBlocks, MaxPageLen)

Limits == 0..MaxLimit

\* url.split("/")[2]
DomainOf(url) == SplitOn(url, "/", 1, <<>>)[3]

\* ExtractItem numbering positions from 0
ExtractItem_zero_based(organic_results, item, filter_domain) ==
  IF IsNone(item.a_href)
     \/ ~(StartsWith(Get(item.a_href), HttpPrefix)
          \/ StartsWith(Get(item.a_href), HttpsPrefix))
  THEN organic_results
  ELSE
    LET result_url == Get(item.a_href)
        title == IF ~IsNone(item.title_div) THEN clean_text(Get(item.title_div))
                 ELSE clean_text(item.a_text)
        snippet == IF ~IsNone(item.snippet_div)
                   THEN clean_text(Get(item.snippet_div))
                   ELSE clean_text(item.item_text)
        date == IF ~IsNone(item.date_span) THEN clean_text(Get(item.date_span))
                ELSE <<>>
        base == [position |-> Len(organic_results),
                 title |-> title,
                 link |-> result_url,
                 snippet |-> snippet,
                 domain |-> DomainOf(result_url)]
    IN IF ~IsNone(filter_domain) /\ Get(filter_domain) # <<>>
          /\ ~Contains(result_url, Get(filter_domain))
       THEN organic_results
       ELSE IF Len(snippet) < 30 \/ Len(title) < 5
       THEN organic_results
       ELSE IF date # <<>>
       THEN Append(organic_results, base @@ [date |-> date])
       ELSE Append(organic_results, base)

\* ExtractItem measuring title and snippet before whitespace normalisation
ExtractItem_raw_lengths(organic_results, item, filter_domain) ==
  IF IsNone(item.a_href)
     \/ ~(StartsWith(Get(item.a_href), HttpPrefix)
          \/ StartsWith(Get(item.a_href), HttpsPrefix))
  THEN organic_results
  ELSE
    LET result_url == Get(item.a_href)
        title == IF ~IsNone(item.title_div) THEN clean_text(Get(item.title_div))
                 ELSE clean_text(item.a_text)
        snippet == IF ~IsNone(item.snippet_div)
                   THEN clean_text(Get(item.snippet_div))
                   ELSE clean_text(item.item_text)
        date == IF ~IsNone(item.date_span) THEN clean_text(Get(item.date_span))
                ELSE <<>>
        base == [position |-> Len(organic_results) + 1,
                 title |-> title,
                 link |-> result_url,
                 snippet |-> snippet,
                 domain |-> DomainOf(result_url)]
    IN IF ~IsNone(filter_domain) /\ Get(filter_domain) # <<>>
          /\ ~Contains(result_url, Get(filter_domain))
       THEN organic_results
       ELSE IF Len(IF ~IsNone(item.snippet_div) THEN Get(item.snippet_div)
                   ELSE item.item_text) < 30
               \/ Len(IF ~IsNone(item.title_div) THEN Get(item.title_div)
                      ELSE item.a_text) < 5
       THEN organic_results
       ELSE IF date # <<>>
       THEN Append(organic_results, base @@ [date |-> date])
       ELSE Append(organic_results, base)

\* One pass of the extraction loop over a matched block: the accepted list
\* after looking at item
ExtractItem(organic_results, item, filter_domain) ==
  IF IsNone(item.a_href)
     \/ ~(StartsWith(Get(item.a_href), HttpPrefix)
          \/ StartsWith(Get(item.a_href), HttpsPrefix))
  THEN organic_results
  ELSE
    LET result_url == Get(item.a_href)
        title == IF ~IsNone(item.title_div) THEN clean_text(Get(item.title_div))
                 ELSE clean_text(item.a_text)
        snippet == IF ~IsNone(item.snippet_div)
                   THEN clean_text(Get(item.snippet_div))
                   ELSE clean_text(item.item_text)
        date == IF ~IsNone(item.date_span) THEN clean_text(Get(item.date_span))
                ELSE <<>>
        base == [position |-> Len(organic_results) + 1,
                 title |-> title,
                 link |-> result_url,
                 snippet |-> snippet,
                 domain |-> DomainOf(result_url)]
    IN IF ~IsNone(filter_domain) /\ Get(filter_domain) # <<>>
          /\ ~Contains(result_url, Get(filter_domain))
       THEN organic_results
       ELSE IF Len(snippet) < 30 \/ Len(title) < 5
       THEN organic_results
       ELSE IF date # <<>>
       THEN Append(organic_results, base @@ [date |-> date])
       ELSE Append(organic_results, base)

\* The title and the snippet the loop computes for a block
TitleOf(item) ==
  IF ~IsNone(item.title_div) THEN clean_text(Get(item.title_div))
  ELSE clean_text(item.a_text)

SnippetOf(item) ==
  IF ~IsNone(item.snippet_div) THEN clean_text(Get(item.snippet_div))
  ELSE clean_text(item.item_text)

\* The extraction loop of brave_search over the matched blocks from index i
RECURSIVE ExtractFrom(_, _, _, _, _)
ExtractFrom(page, i, organic_results, limit, filter_domain) ==
  IF i > Len(page) THEN organic_results
  ELSE IF Len(organic_results) >= limit THEN organic_results
  ELSE ExtractFrom(page, i + 1,
                   ExtractItem(organic_results, page[i], filter_domain),
                   limit, filter_domain)

Extract(page, limit, filter_domain) ==
  ExtractFrom(page, 1, <<>>, limit, filter_domain)

\* Extract over the model's pages, limits and filters, computed once
ExtractTable ==
  [p \in Pages, l \in Limits, f \in FilterDomains |-> Extract(p, l, f)]

\* The loop accepted block i of page: the accepted list grew when it got there
AcceptedAt(page, i, limit, filter_domain) ==
  Len(Extract(SubSeq(page, 1, i), limit, filter_domain))
    > Len(Extract(SubSeq(page, 1, i - 1), limit, filter_domain))

\* The loop skipped a block lying between two blocks it accepted
SkippedBetween(page, limit, filter_domain) ==
  \E i, j, k \in 1..Len(page) :
    /\ i < j /\ j < k
    /\ AcceptedAt(page, i, limit, filter_domain)
    /\ ~AcceptedAt(page, j, limit, filter_domain)
    /\ AcceptedAt(page, k, limit, filter_domain)

GapTable ==
  [p \in Pages, l \in Limits, f \in FilterDomains |-> SkippedBetween(p, l, f)]

\* ------------------------------------------------------------ cache store
\* What the file search_cache/<key>.pkl holds
Missing == [kind |-> "missing"]
Corrupt == [kind |-> "corrupt"]
Pickled(data) == [kind |-> "pickle", data |-> data]

\* LoadTry with the age test written `<=`
LoadTry_inclusive(rec, clock) ==
  IF rec.kind = "missing" THEN [exc |-> FALSE, ret |-> None]
  ELSE IF rec.kind = "corrupt" THEN [exc |-> TRUE, ret |-> None]
  ELSE
    LET cached == rec.data
        raw == cached.searchParameters.fetched_at
        parsed == IF raw.type \in {"str", "badstr"} THEN fromisoformat(raw)
                  ELSE [exc |-> FALSE, value |-> raw]
    IN IF parsed.exc THEN [exc |-> TRUE, ret |-> None]
       ELSE IF parsed.value.type # "datetime" THEN [exc |-> TRUE, ret |-> None]
       ELSE IF total_seconds(clock - parsed.value.t) <= 24 * 3600
       THEN [exc |-> FALSE, ret |-> Some(cached)]
       ELSE [exc |-> FALSE, ret |-> None]

\* The try block of load_from_cache: exc when a statement in it raises
LoadTry(rec, clock) ==
  IF rec.kind = "missing" THEN [exc |-> FALSE, ret |-> None]
  ELSE IF rec.kind = "corrupt" THEN [exc |-> TRUE, ret |-> None]
  ELSE
    LET cached == rec.data
        raw == cached.searchParameters.fetched_at
        parsed == IF raw.type \in {"str", "badstr"} THEN fromisoformat(raw)
                  ELSE [exc |-> FALSE, value |-> raw]
    IN IF parsed.exc THEN [exc |-> TRUE, ret |-> None]
       ELSE IF parsed.value.type # "datetime" THEN [exc |-> TRUE, ret |-> None]
       ELSE IF total_seconds(clock - parsed.value.t) < 24 * 3600
       THEN [exc |-> FALSE, ret |-> Some(cached)]
       ELSE [exc |-> FALSE, ret |-> None]

\* load_from_cache without its except clause
load_from_cache_unguarded(c, cache_key, clock) ==
  LET r == LoadTry(c[cache_key], clock)
  IN IF r.exc THEN [raised |-> TRUE, value |-> None]
     ELSE [raised |-> FALSE, value |-> r.ret]

\* load_from_cache: `except Exception: pass`, then `return None`
load_from_cache(c, cache_key, clock) ==
  LET r == LoadTry(c[cache_key], clock)
  IN IF r.exc THEN [raised |-> FALSE, value |-> None]
     ELSE [raised |-> FALSE, value |-> r.ret]

\* How the write of one cache file can end
SaveOutcomes == {"ok", "open_fails", "write_fails"}

\* save_to_cache pickling a converted copy and leaving the caller's dict alone
save_to_cache_copy(c, cache_key, data, how) ==
  LET mutated == [data EXCEPT !.searchParameters.fetched_at = isoformat(@)]
  IN [raised |-> FALSE,
      data |-> data,
      cache |-> CASE how = "ok" -> [c EXCEPT ![cache_key] = Pickled(mutated)]
                  [] how = "write_fails" -> [c EXCEPT ![cache_key] = Corrupt]
                  [] OTHER -> c]

\* save_to_cache letting a failed write propagate
save_to_cache_raising(c, cache_key, data, how) ==
  LET mutated == [data EXCEPT !.searchParameters.fetched_at = isoformat(@)]
  IN [raised |-> how # "ok",
      data |-> mutated,
      cache |-> CASE how = "ok" -> [c EXCEPT ![cache_key] = Pickled(mutated)]
                  [] how = "write_fails" -> [c EXCEPT ![cache_key] = Corrupt]
                  [] OTHER -> c]

\* save_to_cache: rewrites data's fetched_at in place, then writes the file;
\* a failure is swallowed.  Yields the store and the (mutated) data object.
save_to_cache(c, cache_key, data, how) ==
  LET mutated == [data EXCEPT !.searchParameters.fetched_at = isoformat(@)]
  IN [raised |-> FALSE,
      data |-> mutated,
      cache |-> CASE how = "ok" -> [c EXCEPT ![cache_key] = Pickled(mutated)]
                  [] how = "write_fails" -> [c EXCEPT ![cache_key] = Corrupt]
                  [] OTHER -> c]

\* ------------------------------------------------------------ environment
\* faker.user_agent(), faker.ipv4_public() and the measured latency of the
\* n-th call: every call makes its own draw
faker_user_agent(n) == <<"UA", n>>
faker_ipv4_public(n) == <<"203.0.113", n>>
LatencyMs(n) == 100 + n

\* generate_headers()
generate_headers(ua, ip) == [UserAgent |-> ua, XForwardedFor |-> ip]

\* What fetch_search_page / BeautifulSoup can end with: the parsed page, or
\* an exception with its text
FetchFailures == {"timed out", "connection refused", "503 Service Unavailable"}
FetchOutcomes ==
  {[ok |-> TRUE, page |-> p, message |-> ""] : p \in Pages}
  \cup {[ok |-> FALSE, page |-> <<>>, message |-> m] : m \in FetchFailures}

\* -------------------------------------------------------------- search
SearchParameters(query, fetched_at, latency_ms) ==
  [query |-> query, engine |-> "brave", gl |-> "id", hl |-> "id-id",
   type |-> "search", fetched_at |-> fetched_at, latency_ms |-> latency_ms]

\* What one call gave: how it ended, the value returned, the store after it,
\* and what it did on the way (network attempts, header sets generated, the
\* text of the fetch exception it caught, whether its cache write completed)
Ended(outcome, response, c, fetches, profiles, fetch_error, saved) ==
  [outcome |-> outcome, response |-> response, cache |-> c,
   fetches |-> fetches, profiles |-> profiles, fetch_error |-> fetch_error,
   saved |-> saved]

\* The hit path re-measuring the latency of the stored payload
ServeCached_remeasured(c, cached) ==
  Ended("returned", Some([cached EXCEPT !.searchParameters.latency_ms = 0]),
        c, 0, 0, None, FALSE)

\* `if cached_result := load_from_cache(cache_key): return cached_result`
ServeCached(c, cached) ==
  Ended("returned", Some(cached), c, 0, 0, None, FALSE)

\* quote(query) raises UnicodeEncodeError outside every try block
QuoteRaises(c) ==
  Ended("raised", None, c, 0, 1, None, FALSE)

\* The except branch also storing its envelope under the key
FetchFailed_cached(c, cache_key, query, clock, headers, latency, message) ==
  LET envelope == [status |-> "error",
                   message |-> message,
                   searchParameters |->
                     SearchParameters(query, isoformat(Datetime(clock)), latency),
                   organic_results |-> <<>>,
                   debug |-> [user_agent |-> headers.UserAgent,
                              ip |-> headers.XForwardedFor,
                              result_count |-> 0]]
  IN Ended("returned", Some(envelope),
           [c EXCEPT ![cache_key] = Pickled(envelope)], 1, 1, Some(message), FALSE)

\* The `except Exception as e` branch: the error envelope, nothing written
FetchFailed(c, cache_key, query, clock, headers, latency, message) ==
  Ended("returned",
        Some([status |-> "error",
              message |-> message,
              searchParameters |->
                SearchParameters(query, isoformat(Datetime(clock)), latency),
              organic_results |-> <<>>,
              debug |-> [user_agent |-> headers.UserAgent,
                         ip |-> headers.XForwardedFor,
                         result_count |-> 0]]),
        c, 1, 1, Some(message), FALSE)

\* The success envelope with the error envelope's result_count pasted in
ResultData_zero_count(query, clock, headers, latency, organic_results) ==
  [status |-> "success",
   searchParameters |-> SearchParameters(query, Datetime(clock), latency),
   organic_results |-> organic_results,
   debug |-> [user_agent |-> headers.UserAgent,
              ip |-> headers.XForwardedFor,
              result_count |-> 0]]

\* The success envelope built from the accepted results
ResultData(query, clock, headers, latency, organic_results) ==
  [status |-> "success",
   searchParameters |-> SearchParameters(query, Datetime(clock), latency),
   organic_results |-> organic_results,
   debug |-> [user_agent |-> headers.UserAgent,
              ip |-> headers.XForwardedFor,
              result_count |-> Len(organic_results)]]

\* After a successful fetch: extract, build the envelope, save it, return it
FetchSucceeded(c, cache_key, query, clock, limit, filter_domain, headers, latency, page, how) ==
  LET organic_results == ExtractTable[page, limit, filter_domain]
      result_data == ResultData(query, clock, headers, latency, organic_results)
      saved == save_to_cache(c, cache_key, result_data, how)
  IN IF saved.raised
     THEN Ended("raised", None, saved.cache, 1, 1, None, FALSE)
     ELSE Ended("returned", Some(saved.data), saved.cache, 1, 1, None, how = "ok")

\* brave_search stamping an entry afresh each time it serves it
brave_search_refreshing(c, s, clock, query, limit, filter_domain, ua, ip, latency, fetch, how) ==
  LET cache_key == get_cache_key(s, query)
      loaded == load_from_cache(c, cache_key, clock)
      headers == generate_headers(ua, ip)
  IN IF loaded.raised THEN Ended("raised", None, c, 0, 0, None, FALSE)
     ELSE IF ~IsNone(loaded.value)
     THEN ServeCached(
            [c EXCEPT ![cache_key] =
               Pickled([Get(loaded.value) EXCEPT
                          !.searchParameters.fetched_at =
                             isoformat(Datetime(clock))])],
            Get(loaded.value))
     ELSE IF ~Utf8Encodable(query) THEN QuoteRaises(c)
     ELSE IF ~fetch.ok
     THEN FetchFailed(c, cache_key, query, clock, headers, latency, fetch.message)
     ELSE FetchSucceeded(c, cache_key, query, clock, limit, filter_domain,
                         headers, latency, fetch.page, how)

\* brave_search removing the file of a record its load passed over
brave_search_evicting(c, s, clock, query, limit, filter_domain, ua, ip, latency, fetch, how) ==
  LET cache_key == get_cache_key(s, query)
      loaded == load_from_cache(c, cache_key, clock)
      headers == generate_headers(ua, ip)
      evicted == [c EXCEPT ![cache_key] = Missing]
  IN IF loaded.raised THEN Ended("raised", None, c, 0, 0, None, FALSE)
     ELSE IF ~IsNone(loaded.value) THEN ServeCached(c, Get(loaded.value))
     ELSE IF ~Utf8Encodable(query) THEN QuoteRaises(evicted)
     ELSE IF ~fetch.ok
     THEN FetchFailed(evicted, cache_key, query, clock, headers, latency,
                      fetch.message)
     ELSE FetchSucceeded(evicted, cache_key, query, clock, limit, filter_domain,
                         headers, latency, fetch.page, how)

\* brave_search(query, limit, filter_domain) run against store c under hash
\* seed s at hour clock; ua, ip, latency, fetch and how are what the
\* environment answers if the call gets that far.
brave_search(c, s, clock, query, limit, filter_domain, ua, ip, latency, fetch, how) ==
  LET cache_key == get_cache_key(s, query)
      loaded == load_from_cache(c, cache_key, clock)
      headers == generate_headers(ua, ip)
  IN IF loaded.raised THEN Ended("raised", None, c, 0, 0, None, FALSE)
     ELSE IF ~IsNone(loaded.value) THEN ServeCached(c, Get(loaded.value))
     ELSE IF ~Utf8Encodable(query) THEN QuoteRaises(c)
     ELSE IF ~fetch.ok
     THEN FetchFailed(c, cache_key, query, clock, headers, latency, fetch.message)
     ELSE FetchSucceeded(c, cache_key, query, clock, limit, filter_domain,
                         headers, latency, fetch.page, how)

\* ------------------------------------------------------------------ state
VARIABLES
  now,      \* wall clock, in hours
  seed,     \* hash seed of the running interpreter
  cache,    \* search_cache/: cache key -> file content
  calls,    \* number of brave_search calls made so far
  last,     \* the latest brave_search call and what it gave
  prev,     \* summary of the call before it
  touched,  \* a cache file was removed or damaged from outside since `last`
  extraction,  \* one run of the extraction loop and envelope on a fetched page
  inv       \* the brave_search invocations running side by side, by process

vars == <<now, seed, cache, calls, last, prev, touched, extraction, inv>>

NoCall == [outcome |-> "none"]
NoExtraction == [stage |-> "none"]
NoInvocations == <<>>

TickSteps == {23, 24}

Init ==
  /\ now = 0
  /\ seed \in Seeds
  /\ cache = [k \in Keys |-> Missing]
  /\ calls = 0
  /\ last = NoCall
  /\ prev = NoCall
  /\ touched = FALSE
  /\ extraction = NoExtraction
  /\ inv = NoInvocations

\* What of a call is remembered once the next call has been made
Summary(call) ==
  IF call.outcome = "none" THEN NoCall
  ELSE [outcome |-> call.outcome,
        query |-> call.query,
        key |-> call.key,
        seed |-> call.seed,
        time |-> call.time,
        fetches |-> call.fetches,
        saved |-> call.saved,
        status |-> IF call.outcome = "returned"
                   THEN Get(call.response).status ELSE "raised"]

\* The answers of the environment one call may consult; a call served from
\* the cache consults none of them, a failed fetch is followed by no write
Answers(hit) ==
  IF hit
  THEN {[fetch |-> [ok |-> FALSE, page |-> <<>>, message |-> "timed out"],
         how |-> "ok"]}
  ELSE {[fetch |-> fetch, how |-> how] :
          fetch \in {f \in FetchOutcomes : f.ok}, how \in SaveOutcomes}
       \cup
       {[fetch |-> fetch, how |-> "ok"] : fetch \in {f \in FetchOutcomes : ~f.ok}}

\* One call brave_search(query, limit, filter_domain), start to return.
\* if_saved is what the same call, given the same answers, returns when its
\* cache write completes.
SearchStep(query, limit, filter_domain) ==
  /\ LET cache_key == get_cache_key(seed, query)
         hit == ~IsNone(load_from_cache(cache, cache_key, now).value)
     IN \E o \in {[gap |-> ~hit /\ Utf8Encodable(query) /\ a.fetch.ok
                            /\ GapTable[a.fetch.page, limit, filter_domain],
                   r |-> brave_search(cache, seed, now, query, limit,
                                      filter_domain,
                                      faker_user_agent(calls + 1),
                                      faker_ipv4_public(calls + 1),
                                      LatencyMs(calls + 1), a.fetch, a.how),
                   w |-> brave_search(cache, seed, now, query, limit,
                                      filter_domain,
                                      faker_user_agent(calls + 1),
                                      faker_ipv4_public(calls + 1),
                                      LatencyMs(calls + 1), a.fetch,
                                      "ok").response] :
                    a \in Answers(hit)} :
          /\ cache' = o.r.cache
          /\ last' = [outcome |-> o.r.outcome,
                      query |-> query,
                      limit |-> limit,
                      filter_domain |-> filter_domain,
                      key |-> cache_key,
                      seed |-> seed,
                      time |-> now,
                      before |-> cache[cache_key],
                      touched |-> touched,
                      skipped_between |-> o.gap,
                      response |-> o.r.response,
                      if_saved |-> o.w,
                      fetches |-> o.r.fetches,
                      profiles |-> o.r.profiles,
                      fetch_error |-> o.r.fetch_error,
                      saved |-> o.r.saved]
  /\ prev' = Summary(last)
  /\ calls' = calls + 1
  /\ touched' = FALSE
  /\ UNCHANGED <<now, seed, extraction, inv>>

Search(query, limit, filter_domain) ==
  /\ calls < MaxCalls
  /\ SearchStep(query, limit, filter_domain)

\* Time passes
Tick(d) ==
  /\ 0 < calls /\ calls < MaxCalls
  /\ now + d <= MaxTime
  /\ now' = now + d
  /\ UNCHANGED <<seed, cache, calls, last, prev, touched, extraction, inv>>

\* The process exits and a new interpreter starts: new hash seed, same files
Restart(s) ==
  /\ 0 < calls /\ calls < MaxCalls
  /\ s # seed
  /\ seed' = s
  /\ UNCHANGED <<now, cache, calls, last, prev, touched, extraction, inv>>

\* Someone removes a cache file
ExternalClear(k) ==
  /\ calls < MaxCalls
  /\ cache[k] # Missing
  /\ cache' = [cache EXCEPT ![k] = Missing]
  /\ touched' = TRUE
  /\ UNCHANGED <<now, seed, calls, last, prev, extraction, inv>>

BadTimestamps == {[type |-> "none", t |-> 0], [type |-> "badstr", t |-> 0]}

\* A written cache file is damaged: truncated, or its timestamp lost/garbled
Tamper(k) ==
  /\ calls < MaxCalls
  /\ cache[k].kind = "pickle"
  /\ cache[k].data.searchParameters.fetched_at.type = "str"
  /\ \/ cache' = [cache EXCEPT ![k] = Corrupt]
     \/ \E ts \in BadTimestamps :
          cache' = [cache EXCEPT ![k].data.searchParameters.fetched_at = ts]
  /\ touched' = TRUE
  /\ UNCHANGED <<now, seed, calls, last, prev, extraction, inv>>

Next ==
  \/ \E query \in Queries, limit \in Limits, filter_domain \in FilterDomains :
       Search(query, limit, filter_domain)
  \/ \E d \in TickSteps : Tick(d)
  \/ \E s \in Seeds : Restart(s)
  \/ \E k \in Keys : ExternalClear(k)
  \/ \E k \in Keys : Tamper(k)

Spec == Init /\ [][Next]_vars

\* ------------------------------------------- the extraction loop alone
\* A fetched page handed to the extraction loop and the envelope code of
\* brave_search: the store, the clock and the call history play no part.
ExtractInit ==
  /\ now = 0
  /\ seed = 0
  /\ cache = [k \in Keys |-> Missing]
  /\ calls = 0
  /\ last = NoCall
  /\ prev = NoCall
  /\ touched = FALSE
  /\ inv = NoInvocations
  /\ extraction \in {[stage |-> "fetched", page |-> p, limit |-> l,
                      filter_domain |-> f] :
                       p \in RichPages, l \in Limits, f \in FilterDomains}

\* The loop over the matched blocks, then the success envelope
RunExtraction ==
  /\ extraction.stage = "fetched"
  /\ extraction' =
       [stage |-> "done",
        page |-> extraction.page,
        limit |-> extraction.limit,
        filter_domain |-> extraction.filter_domain,
        response |->
          ResultData("bread", now,
                     generate_headers(faker_user_agent(1), faker_ipv4_public(1)),
                     LatencyMs(1),
                     Extract(extraction.page, extraction.limit,
                             extraction.filter_domain))]
  /\ UNCHANGED <<now, seed, cache, calls, last, prev, touched, inv>>

ExtractNext == RunExtraction

ExtractSpec == ExtractInit /\ [][ExtractNext]_vars

\* ------------------------------------- invocations running side by side
\* Several processes or threads each run one brave_search call for the same
\* query against the same cache directory.  Nothing in the code takes a lock,
\* so the calls interleave at every file operation: the reads of
\* load_from_cache, the open(..., "wb") of save_to_cache, which truncates the
\* file, and the write of pickle.dump.
Procs == 1..NumProcs

ConcQuery == "bread"
ConcPage == <<BlockW, BlockB>>
ConcFetchOutcomes ==
  {[ok |-> TRUE, page |-> ConcPage, message |-> ""],
   [ok |-> FALSE, page |-> <<>>, message |-> "timed out"]}

Idle == [pc |-> "idle"]

\* Line 75: the invocation has its cache key and is about to load
Started(query, limit, filter_domain, cache_key) ==
  [pc |-> "load", query |-> query, limit |-> limit,
   filter_domain |-> filter_domain, key |-> cache_key,
   saw |-> Missing, hit |-> FALSE, fetches |-> 0, fetch_error |-> None,
   data |-> None, wrote |-> FALSE, touch_no |-> 0,
   outcome |-> "running", response |-> None]

\* What pickle.load builds from the first part of one complete record and
\* the rest of another of the same length: the leading fields of the first,
\* the trailing debug block of the second
Torn(head, tail) == [head EXCEPT !.debug = tail.debug]

\* What a load that read the first part of record first can be left holding
\* once it has read the rest from a file that now holds current
RestOutcomes(first, current) ==
  IF current = first THEN {first}
  ELSE IF current.kind # "pickle" THEN {Corrupt}
  ELSE {Corrupt, Pickled(Torn(first.data, current.data))}

\* Lines 76-80 once load_from_cache has answered: return the cached payload,
\* or go on to the fetch (quote raising on a query that cannot be encoded)
AfterLoad(rec, seen, loaded) ==
  IF loaded.raised
  THEN [rec EXCEPT !.pc = "done", !.saw = seen, !.outcome = "raised"]
  ELSE IF ~IsNone(loaded.value)
  THEN [rec EXCEPT !.pc = "done", !.saw = seen, !.hit = TRUE,
                   !.outcome = "returned", !.response = loaded.value]
  ELSE IF ~Utf8Encodable(rec.query)
  THEN [rec EXCEPT !.pc = "done", !.saw = seen, !.outcome = "raised"]
  ELSE [rec EXCEPT !.pc = "fetch", !.saw = seen]

\* AfterFetch going back for a second attempt after a failed one
AfterFetch_retry(rec, p, fetch, clock) ==
  LET headers == generate_headers(faker_user_agent(p), faker_ipv4_public(p))
  IN IF ~fetch.ok
     THEN IF rec.fetches = 0
          THEN [rec EXCEPT !.fetches = @ + 1]
          ELSE [rec EXCEPT
                  !.pc = "done", !.fetches = @ + 1,
                  !.fetch_error = Some(fetch.message),
                  !.outcome = "returned",
                  !.response =
                     FetchFailed(<<>>, rec.key, rec.query, clock, headers,
                                 LatencyMs(p), fetch.message).response]
     ELSE [rec EXCEPT
             !.pc = "save", !.fetches = @ + 1,
             !.data =
                Some(ResultData(rec.query, clock, headers, LatencyMs(p),
                                ExtractTable[fetch.page, rec.limit,
                                             rec.filter_domain]))]

\* Lines 84-162 for process p: one call of fetch_search_page; on an exception
\* the error envelope is returned, otherwise result_data is built
AfterFetch(rec, p, fetch, clock) ==
  LET headers == generate_headers(faker_user_agent(p), faker_ipv4_public(p))
  IN IF ~fetch.ok
     THEN [rec EXCEPT
             !.pc = "done", !.fetches = @ + 1,
             !.fetch_error = Some(fetch.message),
             !.outcome = "returned",
             !.response =
                FetchFailed(<<>>, rec.key, rec.query, clock, headers,
                            LatencyMs(p), fetch.message).response]
     ELSE [rec EXCEPT
             !.pc = "save", !.fetches = @ + 1,
             !.data =
                Some(ResultData(rec.query, clock, headers, LatencyMs(p),
                                ExtractTable[fetch.page, rec.limit,
                                             rec.filter_domain]))]

\* WriteRecord leaving a complete record that is already there
WriteRecord_keep_first(c, cache_key, data) ==
  IF c[cache_key].kind = "pickle" THEN c
  ELSE [c EXCEPT ![cache_key] = Pickled(data)]

\* pickle.dump(data, f) completing: the file holds this payload
WriteRecord(c, cache_key, data) == [c EXCEPT ![cache_key] = Pickled(data)]

\* The number the next change of a cache file gets
NextTouch ==
  LET given == {0} \cup {inv[q].touch_no : q \in {r \in Procs : inv[r].pc # "idle"}}
  IN 1 + CHOOSE m \in given : \A n \in given : n <= m

ConcInit ==
  /\ now = 0
  /\ seed = 0
  /\ cache = [k \in Keys |-> Missing]
  /\ calls = 0
  /\ last = NoCall
  /\ prev = NoCall
  /\ touched = FALSE
  /\ extraction = NoExtraction
  /\ inv = [p \in Procs |-> Idle]

\* Process p calls brave_search(ConcQuery, limit, filter_domain)
Begin(p, limit, filter_domain) ==
  /\ inv[p].pc = "idle"
  /\ inv' = [inv EXCEPT ![p] = Started(ConcQuery, limit, filter_domain,
                                        get_cache_key(seed, ConcQuery))]
  /\ UNCHANGED <<now, seed, cache, calls, last, prev, touched, extraction>>

\* load_from_cache reading the whole file in one read
LoadWhole(p) ==
  /\ inv[p].pc = "load"
  /\ inv' = [inv EXCEPT ![p] =
               AfterLoad(@, cache[@.key], load_from_cache(cache, @.key, now))]
  /\ UNCHANGED <<now, seed, cache, calls, last, prev, touched, extraction>>

\* pickle.load on a record longer than the reader's buffer: the first read
LoadFirstRead(p) ==
  /\ inv[p].pc = "load"
  /\ cache[inv[p].key].kind = "pickle"
  /\ inv' = [inv EXCEPT ![p].pc = "load_rest", ![p].saw = cache[inv[p].key]]
  /\ UNCHANGED <<now, seed, cache, calls, last, prev, touched, extraction>>

\* ... and the read of the rest, from whatever the file holds by then
LoadRest(p) ==
  /\ inv[p].pc = "load_rest"
  /\ \E read \in RestOutcomes(inv[p].saw, cache[inv[p].key]) :
       inv' = [inv EXCEPT ![p] =
                 AfterLoad(@, read,
                           load_from_cache([k \in {@.key} |-> read], @.key, now))]
  /\ UNCHANGED <<now, seed, cache, calls, last, prev, touched, extraction>>

\* fetch_search_page, then the soup and the extraction loop
Fetch(p) ==
  /\ inv[p].pc = "fetch"
  /\ \E fetch \in ConcFetchOutcomes :
       inv' = [inv EXCEPT ![p] = AfterFetch(@, p, fetch, now)]
  /\ UNCHANGED <<now, seed, cache, calls, last, prev, touched, extraction>>

\* save_to_cache, lines 53-54: fetched_at becomes text, then the file is
\* opened for writing, which empties it; a failed open ends the save
SaveOpen(p) ==
  /\ inv[p].pc = "save"
  /\ LET data == [Get(inv[p].data) EXCEPT
                    !.searchParameters.fetched_at = isoformat(@)]
     IN \/ /\ inv' = [inv EXCEPT ![p].pc = "dump", ![p].data = Some(data),
                                 ![p].touch_no = NextTouch]
           /\ cache' = [cache EXCEPT ![inv[p].key] = Corrupt]
        \/ /\ inv' = [inv EXCEPT ![p].pc = "done", ![p].data = Some(data),
                                 ![p].outcome = "returned",
                                 ![p].response = Some(data)]
           /\ cache' = cache
  /\ UNCHANGED <<now, seed, calls, last, prev, touched, extraction>>

\* save_to_cache, line 55, and the return of line 165: the pickle goes out in
\* one write; a dump that fails leaves the file as it is or holding a part
SaveDump(p) ==
  /\ inv[p].pc = "dump"
  /\ \/ /\ cache' = WriteRecord(cache, inv[p].key, Get(inv[p].data))
        /\ inv' = [inv EXCEPT ![p].pc = "done", ![p].wrote = TRUE,
                              ![p].touch_no = NextTouch,
                              ![p].outcome = "returned",
                              ![p].response = inv[p].data]
     \/ /\ cache' = [cache EXCEPT ![inv[p].key] = Corrupt]
        /\ inv' = [inv EXCEPT ![p].pc = "done",
                              ![p].touch_no = NextTouch,
                              ![p].outcome = "returned",
                              ![p].response = inv[p].data]
     \/ /\ cache' = cache
        /\ inv' = [inv EXCEPT ![p].pc = "done",
                              ![p].outcome = "returned",
                              ![p].response = inv[p].data]
  /\ UNCHANGED <<now, seed, calls, last, prev, touched, extraction>>

ConcNext ==
  \/ \E p \in Procs, limit \in Limits, filter_domain \in {NoFilter} :
       Begin(p, limit, filter_domain)
  \/ \E p \in Procs : LoadWhole(p)
  \/ \E p \in Procs : LoadFirstRead(p)
  \/ \E p \in Procs : LoadRest(p)
  \/ \E p \in Procs : Fetch(p)
  \/ \E p \in Procs : SaveOpen(p)
  \/ \E p \in Procs : SaveDump(p)

ConcSpec == ConcInit /\ [][ConcNext]_vars

\* ------------------------------------------- the lifetime of one entry
\* One process calls brave_search for one query again and again while the
\* clock moves on in half-TTL steps: an entry is fetched, served, and grows
\* old.
LifeTickSteps == {12}

LifeInit ==
  /\ now = 0
  /\ seed = 0
  /\ cache = [k \in Keys |-> Missing]
  /\ calls = 0
  /\ last = NoCall
  /\ prev = NoCall
  /\ touched = FALSE
  /\ extraction = NoExtraction
  /\ inv = NoInvocations

LifeSearch(limit, filter_domain) ==
  /\ calls < MaxLifeCalls
  /\ SearchStep(ConcQuery, limit, filter_domain)

LifeTick(d) ==
  /\ 0 < calls /\ calls < MaxLifeCalls
  /\ now + d <= MaxTime
  /\ now' = now + d
  /\ UNCHANGED <<seed, cache, calls, last, prev, touched, extraction, inv>>

LifeNext ==
  \/ \E limit \in Limits, filter_domain \in FilterDomains :
       LifeSearch(limit, filter_domain)
  \/ \E d \in LifeTickSteps : LifeTick(d)

LifeSpec == LifeInit /\ [][LifeNext]_vars

\* ------------------------------------------------------------- properties
Returned == last.outcome = "returned"
Response == Get(last.response)
Results == Response.organic_results

\* A brave_search call happens in this step
CallStep == calls' = calls + 1

\* The file holds a deserialisable payload with a readable timestamp
HasTimestamp(rec) ==
  rec.kind = "pickle" /\ rec.data.searchParameters.fetched_at.type = "str"

\* Hours between a call at hour t and the fetch recorded in rec
AgeAt(t, rec) == t - rec.data.searchParameters.fetched_at.t

C2_NeverRaises ==
  /\ last.outcome # "raised"
  /\ Returned => Response.status \in {"success", "error"}

\* C3: a call whose fetch fails returns an error envelope (status "error",
\* the exception's non-empty text as message, no results, result_count 0)
\* and leaves the whole cache as it was; the next call for the same query
\* under the same hash seed makes a network attempt again.
C3_FetchFailure ==
  [][CallStep =>
       /\ last'.fetch_error # None =>
            /\ last'.outcome = "returned"
            /\ Get(last'.response).status = "error"
            /\ Get(last'.response).message = Get(last'.fetch_error)
            /\ Get(last'.response).message # ""
            /\ Get(last'.response).organic_results = <<>>
            /\ Get(last'.response).debug.result_count = 0
            /\ cache'[last'.key] = cache[last'.key]
            /\ cache' = cache
       /\ (/\ last.outcome = "returned"
           /\ last.fetch_error # None
           /\ last'.query = last.query
           /\ seed = last.seed)
          => last'.fetches = 1]_vars

\* Two failed fetches in a row for one query, the store as it was before
C3_Witness ==
  /\ prev.outcome = "returned" /\ prev.status = "error"
  /\ last.query = prev.query /\ last.seed = prev.seed
  /\ last.fetch_error # None /\ last.fetches = 1
  /\ last.before = cache[last.key]

\* C4 as stated: a call with limit L >= 0 returns at most L results, in any
\* cache state.
C4_LimitBound ==
  (Returned /\ last.limit >= 0) => Len(Results) <= last.limit

\* C5 as stated: a call with filter_domain d returns only results whose link
\* contains d, in any cache state.
C5_DomainFilter ==
  (Returned /\ ~IsNone(last.filter_domain)) =>
    \A i \in 1..Len(Results) : Contains(Results[i].link, Get(last.filter_domain))

\* C6: a stored entry is served exactly when the call comes less than 24
\* hours after its fetched_at; an entry 24 hours old or older is a miss and
\* the call makes a network fetch.
C6_TTL ==
  (last.outcome # "none" /\ HasTimestamp(last.before)) =>
    /\ (/\ Returned
        /\ last.fetches = 0
        /\ last.response = Some(last.before.data))
       <=> AgeAt(last.time, last.before) < 24
    /\ AgeAt(last.time, last.before) >= 24 => last.fetches = 1

\* A call exactly 24 hours after the entry's fetch goes to the network
C6_Witness ==
  /\ last.outcome # "none" /\ HasTimestamp(last.before)
  /\ AgeAt(last.time, last.before) = 24
  /\ last.fetches = 1

\* C7: with a fresh entry under the query's key the call returns the stored
\* payload unchanged whatever limit it was given, makes no network fetch and
\* generates no request profile (so no new latency measurement either).
C7_HitPath ==
  (/\ last.outcome # "none"
   /\ HasTimestamp(last.before)
   /\ AgeAt(last.time, last.before) < 24)
  => /\ Returned
     /\ Response = last.before.data
     /\ last.fetches = 0
     /\ last.profiles = 0
     /\ last.fetch_error = None

\* A hit that returns fewer stored results than the limit it was given
C7_Witness ==
  /\ last.outcome # "none" /\ HasTimestamp(last.before)
  /\ AgeAt(last.time, last.before) < 24
  /\ Returned
  /\ Len(Results) = 1 /\ last.limit = 2

\* C8 as stated: the key of a query is the same in every process run, so an
\* entry written by one call is found by a call for the same query made
\* within 24 hours, restart or not.
C8_KeyStable ==
  (prev.outcome # "none" /\ last.query = prev.query) =>
    /\ last.key = prev.key
    /\ (/\ prev.status = "success" /\ prev.fetches = 1 /\ prev.saved
        /\ ~last.touched
        /\ last.time - prev.time < 24)
       => last.fetches = 0

\* C9: in every returned response the i-th result has position i.
C9_Positions ==
  Returned => \A i \in 1..Len(Results) : Results[i].position = i

\* A fetched response with two results around a block the loop skipped
C9_Witness ==
  /\ Returned /\ last.fetches = 1
  /\ last.skipped_between
  /\ Len(Results) = 2

\* C10: every returned response has debug.result_count equal to its number
\* of results; an error response has no results and carries a message.
C10_Envelope ==
  Returned =>
    /\ Response.debug.result_count = Len(Results)
    /\ Response.status = "error" =>
         /\ Results = <<>>
         /\ "message" \in DOMAIN Response

\* An error response followed by a fetched success with two results
C10_Witness ==
  /\ prev.outcome = "returned" /\ prev.status = "error"
  /\ Returned /\ Response.status = "success" /\ last.fetches = 1
  /\ Response.debug.result_count = 2

\* The extraction has run
Extracted == extraction.stage = "done"
ExtractedResults == extraction.response.organic_results

\* The block's normalised title and snippet reach the length bounds
LongEnough(item) == Len(TitleOf(item)) >= 5 /\ Len(SnippetOf(item)) >= 30

\* C11: every result of an extraction has a title of at least 5 and a
\* snippet of at least 30 characters, and a block failing either bound
\* takes no position and no place under the limit: the results are those of
\* the same page with the failing blocks taken out.
C11_FilterQuality ==
  Extracted =>
    /\ \A i \in 1..Len(ExtractedResults) :
         /\ Len(ExtractedResults[i].title) >= 5
         /\ Len(ExtractedResults[i].snippet) >= 30
    /\ ExtractedResults =
         Extract(SelectSeq(extraction.page, LongEnough), extraction.limit,
                 extraction.filter_domain)

\* A page of three blocks whose first is too short, limit 2, two results
C11_Witness ==
  /\ Extracted
  /\ Len(extraction.page) = 3
  /\ ~LongEnough(extraction.page[1])
  /\ extraction.limit = 2
  /\ Len(ExtractedResults) = 2
  /\ ExtractedResults[1].position = 1

\* C12: a call whose fetch succeeded and whose cache write failed does not
\* raise; it returns the status "success" envelope the same call returns
\* when the write completes, and the store then holds no entry a load would
\* serve under the key: the file is as it was, or unreadable, and every
\* other file is as it was.
C12_BestEffortSave ==
  [][(/\ CallStep
      /\ last'.fetches = 1
      /\ last'.fetch_error = None
      /\ ~last'.saved)
     => (/\ last'.outcome = "returned"
         /\ Get(last'.response).status = "success"
         /\ last'.response = last'.if_saved
         /\ cache'[last'.key] \in {cache[last'.key], Corrupt}
         /\ cache'[last'.key] # Pickled(Get(last'.response))
         /\ IsNone(load_from_cache(cache', last'.key, now).value)
         /\ \A k \in Keys \ {last'.key} : cache'[k] = cache[k])]_vars

\* A fetched success with two results whose write broke off, leaving an
\* unreadable file where none was
C12_Witness ==
  /\ Returned /\ Response.status = "success"
  /\ last.fetches = 1 /\ ~last.saved
  /\ Len(Results) = 2
  /\ last.before = Missing
  /\ cache[last.key] = Corrupt

\* The four kinds of record a load must pass over: none, one that does not
\* deserialise, one whose timestamp is missing or garbled, one 24h old
NoRecord(rec) == rec.kind = "missing"
Undeserialisable(rec) == rec.kind = "corrupt"
BadTimestamp(rec) ==
  rec.kind = "pickle" /\ rec.data.searchParameters.fetched_at.type # "str"
Expired(rec, t) == HasTimestamp(rec) /\ AgeAt(t, rec) >= 24

\* C13: on a missing record, an undeserialisable one, one with a missing or
\* invalid timestamp and one 24 hours old or older, load_from_cache returns
\* None without raising, and the call goes on as on a miss: it generates a
\* request profile and, the query being encodable, makes its fetch and
\* returns an envelope.
C13_LoadAbsent ==
  (/\ last.outcome # "none"
   /\ \/ NoRecord(last.before)
      \/ Undeserialisable(last.before)
      \/ BadTimestamp(last.before)
      \/ Expired(last.before, last.time))
  => /\ load_from_cache([k \in {last.key} |-> last.before], last.key, last.time)
          = [raised |-> FALSE, value |-> None]
     /\ last.profiles = 1
     /\ Utf8Encodable(last.query) => (Returned /\ last.fetches = 1)

\* A first call that found no record and saved one, then a call that found
\* the record with its timestamp gone and fetched again
C13_Witness ==
  /\ prev.outcome = "returned" /\ prev.fetches = 1 /\ prev.saved
  /\ last.query = prev.query /\ last.key = prev.key
  /\ BadTimestamp(last.before)
  /\ last.before.data.searchParameters.fetched_at.type = "none"
  /\ Returned /\ last.fetches = 1

\* C14 as stated: a call changes no cache record except the one under its
\* own key, and that one only when its fetch succeeded, the record then
\* being the new payload; so a stale record a load passes over stays in
\* place and a failed fetch leaves the store as it was.
C14_Original ==
  [][CallStep =>
       \A k \in Keys :
         cache'[k] # cache[k] =>
           /\ k = last'.key
           /\ last'.outcome = "returned"
           /\ last'.fetches = 1
           /\ last'.fetch_error = None
           /\ Get(last'.response).status = "success"
           /\ cache'[k] = Pickled(Get(last'.response))]_vars

\* C14 amended: as stated, except that the write after a successful fetch
\* leaves the new payload when it completes and an unreadable record when
\* it breaks off after the file was opened.
C14_Amended ==
  [][CallStep =>
       \A k \in Keys :
         cache'[k] # cache[k] =>
           /\ k = last'.key
           /\ last'.outcome = "returned"
           /\ last'.fetches = 1
           /\ last'.fetch_error = None
           /\ Get(last'.response).status = "success"
           /\ cache'[k] = IF last'.saved THEN Pickled(Get(last'.response))
                          ELSE Corrupt]_vars

\* A call that found a record 24 hours old, failed to fetch, and left the
\* stale record where it was
C14_Witness ==
  /\ Returned
  /\ Expired(last.before, last.time)
  /\ last.fetch_error # None
  /\ cache[last.key] = last.before

\* The hyperlinks of a block in document order, and those with an absolute
\* http(s) target
AbsoluteUrl(url) == StartsWith(url, HttpPrefix) \/ StartsWith(url, HttpsPrefix)
Hyperlinks(item) ==
  (IF IsNone(item.a_href) THEN <<>> ELSE <<Get(item.a_href)>>) \o item.more_hrefs
AbsoluteLinks(item) == SelectSeq(Hyperlinks(item), AbsoluteUrl)

\* A qualifying candidate: it has an absolute http(s) link, the link passes
\* the domain filter when one is set, title and snippet reach their bounds
Qualifying(item, filter_domain) ==
  /\ AbsoluteLinks(item) # <<>>
  /\ (IsNone(filter_domain)
      \/ Contains(AbsoluteLinks(item)[1], Get(filter_domain)))
  /\ LongEnough(item)

MinOf(a, b) == IF a <= b THEN a ELSE b

\* C15 as stated: after a successful fetch on a miss the results are the
\* first min(limit, n) qualifying candidates of the page in document order,
\* n being the number of qualifying candidates, and debug.result_count is
\* that number of results.
C15_FirstQualifying ==
  Extracted =>
    LET IsQualifying(item) == Qualifying(item, extraction.filter_domain)
        qualifying == SelectSeq(extraction.page, IsQualifying)
        m == MinOf(extraction.limit, Len(qualifying))
    IN /\ extraction.response.status = "success"
       /\ Len(ExtractedResults) = m
       /\ extraction.response.debug.result_count = m
       /\ \A i \in 1..MinOf(m, Len(ExtractedResults)) :
            /\ ExtractedResults[i].link = AbsoluteLinks(qualifying[i])[1]
            /\ ExtractedResults[i].title = TitleOf(qualifying[i])
            /\ ExtractedResults[i].snippet = SnippetOf(qualifying[i])

\* The invocations that have been started, and those that have ended
Running == {p \in Procs : inv[p].pc # "idle"}
Finished == {p \in Procs : inv[p].pc = "done"}

\* C16: an invocation makes at most one fetch attempt, none when it is
\* served from the cache; once an attempt has failed the invocation has
\* ended, with the error envelope, having made that one attempt.
C16_NoRetries ==
  \A p \in Running :
    /\ inv[p].fetches <= 1
    /\ inv[p].hit => inv[p].fetches = 0
    /\ inv[p].fetch_error # None =>
         /\ inv[p].pc = "done"
         /\ inv[p].fetches = 1
         /\ inv[p].outcome = "returned"
         /\ Get(inv[p].response).status = "error"
         /\ Get(inv[p].response).message = Get(inv[p].fetch_error)

\* One invocation ended by a failed fetch, another served from the cache
C16_Witness ==
  \E p, q \in Finished :
    /\ inv[p].fetch_error # None /\ inv[p].fetches = 1
    /\ inv[q].hit /\ inv[q].fetches = 0

\* The invocation that changed the cache file last
LatestWriter(p) ==
  /\ inv[p].touch_no > 0
  /\ \A q \in Running : inv[q].touch_no <= inv[p].touch_no

\* C17: nothing keeps two invocations for one query apart.  Whenever two
\* of them have both written the record and the later of the two writes is
\* the latest change of the file, the file holds the later payload, the
\* earlier one being gone; the witness is the interleaving in which both
\* found no record, both fetched and both wrote.
C17_LastWriteWins ==
  \A p, q \in Finished :
    (/\ p # q
     /\ inv[p].wrote /\ inv[q].wrote
     /\ inv[p].touch_no < inv[q].touch_no
     /\ LatestWriter(q))
    => /\ inv[p].fetches = 1 /\ inv[q].fetches = 1
       /\ cache[inv[q].key] = Pickled(Get(inv[q].data))
       /\ cache[inv[q].key] # Pickled(Get(inv[p].data))

\* Two invocations for the same key that both found no record, both fetched
\* and both completed their write, the second write having replaced the first
C17_Witness ==
  /\ inv[1].pc = "done" /\ inv[2].pc = "done"
  /\ inv[1].key = inv[2].key
  /\ inv[1].saw = Missing /\ inv[2].saw = Missing
  /\ ~inv[1].hit /\ ~inv[2].hit
  /\ inv[1].fetches = 1 /\ inv[2].fetches = 1
  /\ inv[1].wrote /\ inv[2].wrote
  /\ inv[1].touch_no < inv[2].touch_no
  /\ cache[inv[2].key] = Pickled(Get(inv[2].data))
  /\ Get(inv[1].data) # Get(inv[2].data)

\* C18 as stated: every invocation that has ended returned, without raising,
\* either the result of its own fetch or a complete payload that some
\* invocation saved.
C18_NoTornPayload ==
  \A p \in Finished :
    /\ inv[p].outcome = "returned"
    /\ \/ (~inv[p].hit /\ inv[p].fetches = 1)
       \/ \E q \in Running :
            /\ inv[q].wrote
            /\ inv[p].response = inv[q].data

\* C19 as stated: after a call that fetched, accepted no result and saved
\* its payload, every call for the same query less than 24 hours later
\* (nobody having touched the cache files) returns the status "success"
\* envelope with no results and makes no fetch, whatever limit or filter it
\* passes.
C19_EmptyCached ==
  [][(/\ CallStep
      /\ last.outcome = "returned"
      /\ Get(last.response).status = "success"
      /\ last.fetches = 1
      /\ last.saved
      /\ Get(last.response).organic_results = <<>>
      /\ last'.query = last.query
      /\ now - last.time < 24
      /\ ~touched)
     => (/\ last'.outcome = "returned"
         /\ Get(last'.response).status = "success"
         /\ Get(last'.response).organic_results = <<>>
         /\ last'.fetches = 0)]_vars

\* C20: a call served from the cache leaves every cache file as it is, so
\* the entry keeps the fetched_at its fetch gave it (a fetch at hour t that
\* saves stores fetched_at = t), and the payload a served call returns was
\* fetched less than 24 hours before the call: no call at t + 24h or later
\* is served the entry, however many calls it served before.
C20_NoLifetimeExtension ==
  [][CallStep =>
       /\ (last'.outcome = "returned" /\ last'.fetches = 0) =>
            /\ cache' = cache
            /\ HasTimestamp(cache[last'.key])
            /\ last'.response = Some(cache[last'.key].data)
            /\ AgeAt(now, cache[last'.key]) < 24
       /\ last'.saved =>
            /\ HasTimestamp(cache'[last'.key])
            /\ AgeAt(now, cache'[last'.key]) = 0
       /\ (/\ HasTimestamp(cache[last'.key])
           /\ AgeAt(now, cache[last'.key]) >= 24)
          => last'.fetches = 1]_vars

\* An entry fetched at hour 0 and served at hour 12 is passed over at hour
\* 24, twelve hours after it was last served
C20_Witness ==
  /\ calls = 3
  /\ prev.outcome = "returned" /\ prev.fetches = 0 /\ prev.time = 12
  /\ last.time = 24
  /\ HasTimestamp(last.before)
  /\ last.before.data.searchParameters.fetched_at.t = 0
  /\ last.fetches = 1

====
